---- MODULE Spec2Model ----
(***************************************************************************)
(* Knowledge synchronization pipeline of src/lib/elevenlabs.ts:            *)
(* uploadToKnowledgeBase = upload file -> trigger RAG indexing -> poll     *)
(* -> GET agent config -> append entry -> PATCH agent config.              *)
(* Several ingestions run as independent async call chains against one     *)
(* remote agent; every awaited fetch is one atomic step of one ingestion.  *)
(***************************************************************************)
EXTENDS Integers, Sequences, FiniteSets, TLC

\* ---------------------------------------------------------------- bounds
MaxDocId == 2               \* document ids the remote service may report
MaxInitLen == 1             \* length of the agent's list before any ingestion

\* ------------------------------------------------------ program constants
maxAttempts == 20           \* polling budget
MaxDocumentsLength == 10000 \* rag.max_documents_length written on every PATCH
Undefined == 0              \* JS undefined: neither id field in the upload body

EmbeddingModel == "e5_mistral_7b_instruct"

\* the two concurrent uploadToKnowledgeBase calls
Ingestions == {1, 2}
DocIds == 1..MaxDocId

\* Body of a 2xx upload response: either id field may be missing.
UploadBodies == [id : DocIds \cup {Undefined}, document_id : DocIds \cup {Undefined}]

\* status field of the rag-index response
RagStatuses == {"pending", "succeeded", "failed"}

\* rag settings the pipeline writes
RagConstants ==
  [enabled |-> TRUE, embedding_model |-> EmbeddingModel,
   max_documents_length |-> MaxDocumentsLength]

\* the settings the agent holds before the pipeline writes
OtherRag ==
  [enabled |-> FALSE, embedding_model |-> "other", max_documents_length |-> 0]

VARIABLES
  agentId,                \* ELEVENLABS_AGENT_ID is configured
  initKB,                 \* the agent's knowledge_base before any ingestion
  agentKB,                \* remote: conversation_config.agent.prompt.knowledge_base
  agentRag,               \* remote: conversation_config.agent.prompt.rag
  remoteDocs,             \* remote: ingestions whose uploaded file exists remotely
  pc,                     \* position of each ingestion
  documentId,             \* local documentId
  ragStatus,              \* local ragData.status ("none" outside the polling block)
  attempts,               \* local attempts (0 outside the polling block)
  existingKnowledgeBase,  \* local existingKnowledgeBase
  indexLog,               \* what the indexing block logged when it was left
  sentKB,                 \* knowledge_base of the PATCH body the ingestion sent
  result,                 \* returned KnowledgeBaseDocument, or NoResult
  err,                    \* the thrown Error and the step that threw it, or NoErr
  calls,                  \* remote calls issued so far, per ingestion and kind
  route,                  \* which version of the upload route is deployed
  documents,              \* local storage: the rows of prisma.document
  response,               \* HTTP status the route answered each request with, or Undefined
  retryPc,                \* withRetry: position of the call
  retries,                \* withRetry: parameter retries of the current frame
  delay,                  \* withRetry: parameter delay of the current frame
  error,                  \* withRetry: the caught error of the current frame
  invocations,            \* withRetry: how often operation() was invoked
  waits,                  \* withRetry: the delays waited so far, in order
  thrown,                 \* withRetry: the error the outermost call rejected with
  retryArgs               \* withRetry: the arguments of the outermost call

vars == <<agentId, initKB, agentKB, agentRag, remoteDocs, pc, documentId, ragStatus,
          attempts, existingKnowledgeBase, indexLog, sentKB, result, err, calls,
          route, documents, response,
          retryPc, retries, delay, error, invocations, waits, thrown, retryArgs>>

remote == <<agentKB, agentRag, remoteDocs>>

config == <<agentId, initKB, route>>

\* what uploadToKnowledgeBase of src/lib/elevenlabs.ts reads and writes
ingestion == <<agentId, initKB, agentKB, agentRag, remoteDocs, pc, documentId, ragStatus,
               attempts, existingKnowledgeBase, indexLog, sentKB, result, err, calls>>

\* the state of a withRetry call
retryVars == <<retryPc, retries, delay, error, invocations, waits, thrown, retryArgs>>

\* what no step of uploadToKnowledgeBase touches
elsewhere == <<documents, retryVars>>

NoResult == [id |-> Undefined, status |-> "none"]
NoErr == [msg |-> "none", at |-> "none"]
NoCalls == [upload |-> 0, trigger |-> 0, get |-> 0, patch |-> 0, del |-> 0]

ErrUpload == "Failed to upload document"
ErrNoAgent == "ELEVENLABS_AGENT_ID is not configured"
ErrGetAgent == "Failed to get agent config"
ErrLink == "Failed to link document to agent"
ErrRejected == "fetch rejected"

\* ---------------------------------------------------------- pure helpers
Range(s) == {s[i] : i \in 1..Len(s)}

Ids(s) == {s[i].id : i \in 1..Len(s)}

NoDuplicateIds(s) == \A i, j \in 1..Len(s) : s[i].id = s[j].id => i = j

\* ExtractDocumentId that prefers document_id over id
ExtractDocumentId_DocumentIdFirst(data) ==
  IF data.document_id # Undefined THEN data.document_id ELSE data.id

\* const documentId = data.id || data.document_id
ExtractDocumentId(data) ==
  IF data.id # Undefined THEN data.id ELSE data.document_id

\* NewEntry with the id left out of the entry
NewEntry_NoId(p, docId) ==
  [type |-> "file", name |-> p, id |-> Undefined, usage_mode |-> "auto"]

\* the entry built for the just-uploaded document (document.name is the
\* ingestion's own name, modelled by its number)
NewEntry(p, docId) ==
  [type |-> "file", name |-> p, id |-> docId, usage_mode |-> "auto"]

\* an entry that was in the agent's list before any ingestion
OldEntry(d) ==
  [type |-> "file", name |-> 0, id |-> d, usage_mode |-> "prompt"]

\* NewKnowledgeBase that skips the append when the id is already listed
NewKnowledgeBase_Dedup(existing, entry) ==
  IF entry.id \in Ids(existing) THEN existing ELSE Append(existing, entry)

\* NewKnowledgeBase that puts the new entry first
NewKnowledgeBase_Prepend(existing, entry) == <<entry>> \o existing

\* const newKnowledgeBase = [...existingKnowledgeBase, {...}]
NewKnowledgeBase(existing, entry) == Append(existing, entry)

\* LoopCondition with the budget test off by one (<= instead of <)
LoopCondition_OffByOne(status, n) ==
  status # "succeeded" /\ status # "failed" /\ n <= maxAttempts

\* LoopCondition that forgets the 'failed' terminal status
LoopCondition_IgnoresFailed(status, n) ==
  status # "succeeded" /\ n < maxAttempts

\* while (status !== 'succeeded' && status !== 'failed' && attempts < maxAttempts)
LoopCondition(status, n) ==
  status # "succeeded" /\ status # "failed" /\ n < maxAttempts

\* if (status === 'failed') error(...) else if (status !== 'succeeded') log(...)
PollingLog(status) ==
  IF status = "failed" THEN "failed"
  ELSE IF status # "succeeded" THEN "in progress"
  ELSE "succeeded"

\* lists of old entries with unique ids, up to MaxInitLen long
InitLists ==
  UNION {{s \in [1..n -> {OldEntry(d) : d \in DocIds}] : NoDuplicateIds(s)}
         : n \in 0..MaxInitLen}

Bump(c, kind) == [c EXCEPT ![kind] = @ + 1]

\* ---------------------------------------------------------- upload route
\* "auth": src/app/api/upload-document/route.ts; "demo": src/unnamed/part_011
Routes == {"auth", "demo"}

\* status of the response the route's catch around uploadToKnowledgeBase returns
IngestionFailureStatus(r) == IF r = "auth" THEN 502 ELSE 500

\* property access on the returned object: undefined when the property is absent
Property(obj, name) == IF name \in DOMAIN obj THEN obj[name] ELSE Undefined

\* the remote id the route stores: kbResult.documentId / knowledgeBaseDoc.id
StoredDocId(r, kb) ==
  IF r = "auth" THEN Property(kb, "documentId") ELSE Property(kb, "id")

\* data of prisma.document.create for request p, given the ingestion's result
NewDocument(r, p, kb) ==
  [request |-> p,
   elevenLabsDocId |-> StoredDocId(r, kb),
   status |-> IF r = "auth" THEN "processed" ELSE "none",
   processedAt |-> r = "demo" /\ Property(kb, "status") = "indexed"]

\* elevenLabsDocId is an optional unique column
UniqueDocId(rows, doc) ==
  doc.elevenLabsDocId = Undefined
    \/ \A d \in rows : d.elevenLabsDocId # doc.elevenLabsDocId

\* -------------------------------------------------------------- withRetry
DefaultRetries == 3
DefaultDelay == 1000

MaxRetries == 4

RetryBudgets == 0..MaxRetries

InitialDelays == {DefaultDelay, 250, 1}

StatusCodes == {Undefined, 400, 429, 499, 500, 599, 600}

ErrorCodes == {"none", "ECONNRESET", "ETIMEDOUT", "ENOTFOUND"}

NoError == [name |-> "none", statusCode |-> Undefined, code |-> "none", raisedBy |-> 0]

\* the errors invocation n of the operation can reject with; raisedBy tells the
\* error objects of different invocations apart
Errors(n) ==
  [name : {"Error"}, statusCode : StatusCodes, code : ErrorCodes, raisedBy : {n}]

\* the operation passed to withRetry: any async function, or one of the four
\* SDK wrappers of src/lib/env.ts (try { SDK call } catch { throw new ElevenLabsError })
Operations == {"any", "sdk"}

\* new ElevenLabsError(message, originalError): an Error with the properties
\* name, message and originalError, and neither statusCode nor code
ElevenLabsError(originalError) ==
  [name |-> "ElevenLabsError", statusCode |-> Undefined, code |-> "none",
   raisedBy |-> originalError.raisedBy, originalError |-> originalError]

\* IsRetryable without the upper end of the 5xx range
IsRetryable_NoUpperBound(e) ==
  \/ e.statusCode = 429
  \/ e.statusCode >= 500
  \/ e.code = "ECONNRESET"
  \/ e.code = "ETIMEDOUT"

\* const isRetryable = statusCode === 429 || (statusCode >= 500 && statusCode < 600)
\*                     || code === 'ECONNRESET' || code === 'ETIMEDOUT'
IsRetryable(e) ==
  \/ e.statusCode = 429
  \/ (e.statusCode >= 500 /\ e.statusCode < 600)
  \/ e.code = "ECONNRESET"
  \/ e.code = "ETIMEDOUT"

\* Exhausted that gives up while one retry is left
Exhausted_OneEarly(r) == r <= 1

\* if (retries <= 0) throw error
Exhausted(r) == r <= 0

\* NextDelay that keeps the delay fixed
NextDelay_Fixed(d) == d

\* withRetry(operation, retries - 1, delay * 2)
NextDelay(d) == d * 2

\* Rethrow that wraps the error with the number of attempts
Rethrow_Wrapped(e) == [name |-> "RemoteCallError", attempts |-> invocations, cause |-> e]

\* throw error: the caught object itself
Rethrow(e) == e

\* ------------------------------------------------------------------ Init
\* no withRetry call is under way
RetryIdle ==
  /\ retryPc = "idle"
  /\ retries = 0
  /\ delay = 0
  /\ error = NoError
  /\ invocations = 0
  /\ waits = <<>>
  /\ thrown = NoError
  /\ retryArgs = [operation |-> "none", retries |-> 0, delay |-> 0]

\* nothing was requested yet: the remote agent holds its initial list
Start ==
  /\ documents = {}
  /\ response = [p \in Ingestions |-> Undefined]
  /\ agentKB = initKB
  /\ agentRag = OtherRag
  /\ remoteDocs = {}
  /\ pc = [p \in Ingestions |-> "upload"]
  /\ documentId = [p \in Ingestions |-> Undefined]
  /\ ragStatus = [p \in Ingestions |-> "none"]
  /\ attempts = [p \in Ingestions |-> 0]
  /\ existingKnowledgeBase = [p \in Ingestions |-> <<>>]
  /\ indexLog = [p \in Ingestions |-> "none"]
  /\ sentKB = [p \in Ingestions |-> <<>>]
  /\ result = [p \in Ingestions |-> NoResult]
  /\ err = [p \in Ingestions |-> NoErr]
  /\ calls = [p \in Ingestions |-> NoCalls]

\* two concurrent ingestions against any initial agent list
Init ==
  /\ agentId \in BOOLEAN
  /\ initKB \in InitLists
  /\ route = "auth"
  /\ RetryIdle
  /\ Start

\* --------------------------------------------------------------- actions
\* the call chain ends (return or throw): its locals are gone
DropLocals(p) ==
  /\ documentId' = [documentId EXCEPT ![p] = Undefined]
  /\ ragStatus' = [ragStatus EXCEPT ![p] = "none"]
  /\ attempts' = [attempts EXCEPT ![p] = 0]
  /\ existingKnowledgeBase' = [existingKnowledgeBase EXCEPT ![p] = <<>>]

\* throw new Error(msg): the ingestion rejects
\* the route's catch around the call answers with the error response
Throw(p, msg) ==
  /\ pc' = [pc EXCEPT ![p] = "failed"]
  /\ err' = [err EXCEPT ![p] = [msg |-> msg, at |-> pc[p]]]
  /\ response' = [response EXCEPT ![p] = IngestionFailureStatus(route)]
  /\ DropLocals(p)
  /\ UNCHANGED result

\* ---- Step 1: POST /convai/knowledge-base/file
UploadCall(p) ==
  /\ pc[p] = "upload"
  /\ calls' = [calls EXCEPT ![p] = Bump(@, "upload")]
  /\ UNCHANGED <<config, agentKB, agentRag, indexLog, sentKB, elsewhere>>

\* UploadOk that goes straight to the config fetch, before any indexing
UploadOk_SkipIndexing(p, data) ==
  /\ UploadCall(p)
  /\ remoteDocs' = remoteDocs \cup {p}
  /\ documentId' = [documentId EXCEPT ![p] = ExtractDocumentId(data)]
  /\ pc' = [pc EXCEPT ![p] = "getAgent"]
  /\ UNCHANGED <<ragStatus, attempts, existingKnowledgeBase, err, result, response>>

\* 2xx: the remote document exists, its id is read from the body
UploadOk(p, data) ==
  /\ UploadCall(p)
  /\ remoteDocs' = remoteDocs \cup {p}
  /\ documentId' = [documentId EXCEPT ![p] = ExtractDocumentId(data)]
  /\ pc' = [pc EXCEPT ![p] = "trigger"]
  /\ UNCHANGED <<ragStatus, attempts, existingKnowledgeBase, err, result, response>>

\* UploadNotOk without the response.ok check: the pipeline goes on
UploadNotOk_Continue(p) ==
  /\ UploadCall(p)
  /\ pc' = [pc EXCEPT ![p] = "trigger"]
  /\ UNCHANGED <<remoteDocs, documentId, ragStatus, attempts, existingKnowledgeBase,
                 err, result, response>>

\* non-2xx: if (!response.ok) throw
UploadNotOk(p) ==
  /\ UploadCall(p)
  /\ Throw(p, ErrUpload)
  /\ UNCHANGED remoteDocs

\* UploadRejected behind a retry wrapper: the call is issued again
UploadRejected_Retried(p, created) ==
  /\ UploadCall(p)
  /\ remoteDocs' = IF created THEN remoteDocs \cup {p} ELSE remoteDocs
  /\ IF calls[p].upload < 3
       THEN UNCHANGED <<pc, documentId, ragStatus, attempts, existingKnowledgeBase,
                        err, result, response>>
       ELSE Throw(p, ErrRejected)

\* the awaited fetch rejects; the request may or may not have been served
UploadRejected(p, created) ==
  /\ UploadCall(p)
  /\ remoteDocs' = IF created THEN remoteDocs \cup {p} ELSE remoteDocs
  /\ Throw(p, ErrRejected)

Upload(p) ==
  \/ \E data \in UploadBodies : UploadOk(p, data)
  \/ UploadNotOk(p)
  \/ \E created \in BOOLEAN : UploadRejected(p, created)

\* AfterIndexing without the agent id guard
AfterIndexing_NoGuard(p, log) ==
  /\ indexLog' = [indexLog EXCEPT ![p] = log]
  /\ pc' = [pc EXCEPT ![p] = "getAgent"]
  /\ ragStatus' = [ragStatus EXCEPT ![p] = "none"]
  /\ attempts' = [attempts EXCEPT ![p] = 0]
  /\ UNCHANGED <<documentId, existingKnowledgeBase, err, result, response>>

\* Step 3 guard: if (!ELEVENLABS_AGENT_ID) throw ...; otherwise go on to the GET.
\* The block-scoped ragData and attempts end with the indexing block.
AfterIndexing(p, log) ==
  /\ indexLog' = [indexLog EXCEPT ![p] = log]
  /\ IF agentId
       THEN /\ pc' = [pc EXCEPT ![p] = "getAgent"]
            /\ ragStatus' = [ragStatus EXCEPT ![p] = "none"]
            /\ attempts' = [attempts EXCEPT ![p] = 0]
            /\ UNCHANGED <<documentId, existingKnowledgeBase, err, result, response>>
       ELSE Throw(p, ErrNoAgent)

\* ---- Step 2: POST /convai/knowledge-base/{documentId}/rag-index (the trigger)
TriggerCall(p) ==
  /\ pc[p] = "trigger"
  /\ calls' = [calls EXCEPT ![p] = Bump(@, "trigger")]
  /\ UNCHANGED <<config, remote, sentKB, elsewhere>>

\* AfterRagAnswer that throws when polling ends without 'succeeded'
AfterRagAnswer_Strict(p, s, n) ==
  IF LoopCondition(s, n)
    THEN /\ pc' = [pc EXCEPT ![p] = "poll"]
         /\ ragStatus' = [ragStatus EXCEPT ![p] = s]
         /\ attempts' = [attempts EXCEPT ![p] = n]
         /\ UNCHANGED <<documentId, existingKnowledgeBase, indexLog, err, result, response>>
    ELSE IF s = "succeeded"
      THEN AfterIndexing(p, PollingLog(s))
      ELSE /\ Throw(p, "RAG indexing failed")
           /\ indexLog' = [indexLog EXCEPT ![p] = PollingLog(s)]

\* AfterRagAnswer whose attempt counter starts over instead of ending the loop
AfterRagAnswer_CounterWraps(p, s, n) ==
  IF s # "succeeded" /\ s # "failed"
    THEN /\ pc' = [pc EXCEPT ![p] = "poll"]
         /\ ragStatus' = [ragStatus EXCEPT ![p] = s]
         /\ attempts' = [attempts EXCEPT ![p] = n % maxAttempts]
         /\ UNCHANGED <<documentId, existingKnowledgeBase, indexLog, err, result, response>>
    ELSE AfterIndexing(p, PollingLog(s))

\* after a rag-index answer left ragData.status = s with n attempts made:
\* the while condition decides between another iteration and leaving the block
AfterRagAnswer(p, s, n) ==
  IF LoopCondition(s, n)
    THEN /\ pc' = [pc EXCEPT ![p] = "poll"]
         /\ ragStatus' = [ragStatus EXCEPT ![p] = s]
         /\ attempts' = [attempts EXCEPT ![p] = n]
         /\ UNCHANGED <<documentId, existingKnowledgeBase, indexLog, err, result, response>>
    ELSE AfterIndexing(p, PollingLog(s))

\* 2xx: ragData = await ragIndexResponse.json(); enter the polling block
TriggerOk(p, s) ==
  /\ TriggerCall(p)
  /\ AfterRagAnswer(p, s, 0)

\* TriggerNotOk that throws instead of continuing
TriggerNotOk_Fatal(p) ==
  /\ TriggerCall(p)
  /\ Throw(p, "Failed to trigger RAG indexing")
  /\ indexLog' = [indexLog EXCEPT ![p] = "trigger failed"]

\* non-2xx: console.error, "Continue anyway"
TriggerNotOk(p) ==
  /\ TriggerCall(p)
  /\ AfterIndexing(p, "trigger failed")

TriggerRejected(p) ==
  /\ TriggerCall(p)
  /\ Throw(p, ErrRejected)
  /\ UNCHANGED indexLog

Trigger(p) ==
  \/ \E s \in RagStatuses : TriggerOk(p, s)
  \/ TriggerNotOk(p)
  \/ TriggerRejected(p)

\* ---- one iteration of the polling loop: wait 3 s, attempts++, POST rag-index again
PollCall(p) ==
  /\ pc[p] = "poll"
  /\ UNCHANGED <<config, remote, sentKB, calls, elsewhere>>

\* 2xx: ragData = await statusResponse.json()
PollOk(p, s) ==
  /\ PollCall(p)
  /\ AfterRagAnswer(p, s, attempts[p] + 1)

\* PollNotOk that takes a non-2xx status check for a failed indexing job
PollNotOk_EndsPolling(p) ==
  /\ PollCall(p)
  /\ AfterRagAnswer(p, "failed", attempts[p] + 1)

\* non-2xx: ragData keeps its value
PollNotOk(p) ==
  /\ PollCall(p)
  /\ AfterRagAnswer(p, ragStatus[p], attempts[p] + 1)

\* the awaited fetch rejects: no try/catch around it, the ingestion rejects
PollRejected(p) ==
  /\ PollCall(p)
  /\ Throw(p, ErrRejected)
  /\ UNCHANGED indexLog

Poll(p) ==
  \/ \E s \in RagStatuses : PollOk(p, s)
  \/ PollNotOk(p)
  \/ PollRejected(p)

\* ---- Step 3: GET /convai/agents/{agentId}
GetAgentCall(p) ==
  /\ pc[p] = "getAgent"
  /\ calls' = [calls EXCEPT ![p] = Bump(@, "get")]
  /\ UNCHANGED <<config, remote, indexLog, sentKB, elsewhere>>

\* 2xx: existingKnowledgeBase = agentData...knowledge_base || []
GetAgentOk(p) ==
  /\ GetAgentCall(p)
  /\ existingKnowledgeBase' = [existingKnowledgeBase EXCEPT ![p] = agentKB]
  /\ pc' = [pc EXCEPT ![p] = "patch"]
  /\ UNCHANGED <<documentId, ragStatus, attempts, err, result, response>>

\* GetAgentNotOk that falls back to an empty list instead of throwing
GetAgentNotOk_Empty(p) ==
  /\ GetAgentCall(p)
  /\ existingKnowledgeBase' = [existingKnowledgeBase EXCEPT ![p] = <<>>]
  /\ pc' = [pc EXCEPT ![p] = "patch"]
  /\ UNCHANGED <<documentId, ragStatus, attempts, err, result, response>>

\* GetAgentNotOk that issues the fetch again, up to three times
GetAgentNotOk_Retried(p) ==
  /\ GetAgentCall(p)
  /\ IF calls[p].get < 3
       THEN UNCHANGED <<pc, documentId, ragStatus, attempts, existingKnowledgeBase,
                        err, result, response>>
       ELSE Throw(p, ErrGetAgent)

\* non-2xx: if (!agentResponse.ok) throw
GetAgentNotOk(p) ==
  /\ GetAgentCall(p)
  /\ Throw(p, ErrGetAgent)

GetAgentRejected(p) ==
  /\ GetAgentCall(p)
  /\ Throw(p, ErrRejected)

GetAgent(p) == GetAgentOk(p) \/ GetAgentNotOk(p) \/ GetAgentRejected(p)

\* ---- Step 3: PATCH /convai/agents/{agentId} with the merged list, then return
\* ApplyPatch that merges the body into the stored list instead of replacing it
ApplyPatch_Merging(kb) ==
  /\ agentKB' = agentKB \o SelectSeq(kb, LAMBDA e : e \notin Range(agentKB))
  /\ agentRag' = RagConstants

\* ApplyPatch for a PATCH body without the rag block
ApplyPatch_KeepRag(kb) ==
  /\ agentKB' = kb
  /\ agentRag' = agentRag

\* the remote applies a PATCH body: the whole list and the rag block are replaced
ApplyPatch(kb) ==
  /\ agentKB' = kb
  /\ agentRag' = RagConstants

PatchCall(p) ==
  /\ pc[p] = "patch"
  /\ calls' = [calls EXCEPT ![p] = Bump(@, "patch")]
  /\ sentKB' = [sentKB EXCEPT ![p] =
                  NewKnowledgeBase(existingKnowledgeBase[p], NewEntry(p, documentId[p]))]
  /\ UNCHANGED <<config, remoteDocs, indexLog, elsewhere>>

\* PatchOk that reports 'indexed' when the indexing was seen to succeed
PatchOk_ReportsIndexed(p) ==
  /\ PatchCall(p)
  /\ ApplyPatch(sentKB'[p])
  /\ pc' = [pc EXCEPT ![p] = "done"]
  /\ result' = [result EXCEPT ![p] =
                  [id |-> documentId[p],
                   status |-> IF indexLog[p] = "succeeded" THEN "indexed" ELSE "processing"]]
  /\ DropLocals(p)
  /\ UNCHANGED <<err, response>>

\* 2xx: return { id: documentId, name, status: 'processing', chunkCount }
PatchOk(p) ==
  /\ PatchCall(p)
  /\ ApplyPatch(sentKB'[p])
  /\ pc' = [pc EXCEPT ![p] = "done"]
  /\ result' = [result EXCEPT ![p] = [id |-> documentId[p], status |-> "processing"]]
  /\ DropLocals(p)
  /\ UNCHANGED <<err, response>>

\* PatchNotOk without the updateResponse.ok check: the ingestion returns normally
PatchNotOk_Swallowed(p) ==
  /\ PatchCall(p)
  /\ pc' = [pc EXCEPT ![p] = "done"]
  /\ result' = [result EXCEPT ![p] = [id |-> documentId[p], status |-> "processing"]]
  /\ DropLocals(p)
  /\ UNCHANGED <<agentKB, agentRag, err, response>>

\* non-2xx: if (!updateResponse.ok) throw
PatchNotOk(p) ==
  /\ PatchCall(p)
  /\ Throw(p, ErrLink)
  /\ UNCHANGED <<agentKB, agentRag>>

\* the awaited fetch rejects; the request may or may not have been served
PatchRejected(p, applied) ==
  /\ PatchCall(p)
  /\ IF applied THEN ApplyPatch(sentKB'[p]) ELSE UNCHANGED <<agentKB, agentRag>>
  /\ Throw(p, ErrRejected)

Patch(p) ==
  \/ PatchOk(p)
  \/ PatchNotOk(p)
  \/ \E applied \in BOOLEAN : PatchRejected(p, applied)

\* ---- the upload route after uploadToKnowledgeBase returned
\* RouteCreateCall that does not look at how the ingestion ended
RouteCreateCall_AnyOutcome(p) ==
  /\ pc[p] \in {"done", "failed"}
  /\ UNCHANGED <<ingestion, route, retryVars>>

\* await prisma.document.create(...), reached only when the ingestion returned
RouteCreateCall(p) ==
  /\ pc[p] = "done"
  /\ response[p] = Undefined
  /\ UNCHANGED <<ingestion, route, retryVars>>

\* the row is stored; return NextResponse.json(..., { status: 201 })
RouteCreateOk(p) ==
  /\ RouteCreateCall(p)
  /\ UniqueDocId(documents, NewDocument(route, p, result[p]))
  /\ documents' = documents \cup {NewDocument(route, p, result[p])}
  /\ response' = [response EXCEPT ![p] = 201]

\* prisma rejects: the handler's outer catch answers 500
RouteCreateFailed(p) ==
  /\ RouteCreateCall(p)
  /\ response' = [response EXCEPT ![p] = 500]
  /\ UNCHANGED documents

RouteCreate(p) == RouteCreateOk(p) \/ RouteCreateFailed(p)

Next == \E p \in Ingestions :
  Upload(p) \/ Trigger(p) \/ Poll(p) \/ GetAgent(p) \/ Patch(p)

Spec == Init /\ [][Next]_vars

\* the agent's initial list plays no part in whether an ingestion ends
InitFair ==
  /\ agentId \in BOOLEAN
  /\ initKB = <<>>
  /\ route = "auth"
  /\ RetryIdle
  /\ Start

\* every remote call eventually returns
FairSpec ==
  /\ InitFair /\ [][Next]_vars
  /\ \A p \in Ingestions :
       WF_vars(Upload(p) \/ Trigger(p) \/ Poll(p) \/ GetAgent(p) \/ Patch(p))

\* two concurrent requests to either version of the route, agent list empty
InitRoute ==
  /\ agentId \in BOOLEAN
  /\ initKB = <<>>
  /\ route \in Routes
  /\ RetryIdle
  /\ Start

NextRoute == \E p \in Ingestions :
  Upload(p) \/ Trigger(p) \/ Poll(p) \/ GetAgent(p) \/ Patch(p) \/ RouteCreate(p)

SpecRoute == InitRoute /\ [][NextRoute]_vars

\* ---- ingestions that do not overlap: a config fetch succeeds only while no
\* other ingestion is between its own fetch and the end of its PATCH
GetAgentSerial(p) ==
  \/ /\ \A q \in Ingestions \ {p} : pc[q] # "patch"
     /\ GetAgentOk(p)
  \/ GetAgentNotOk(p)
  \/ GetAgentRejected(p)

NextSerial == \E p \in Ingestions :
  Upload(p) \/ Trigger(p) \/ Poll(p) \/ GetAgentSerial(p) \/ Patch(p)

SpecSerial == Init /\ [][NextSerial]_vars

\* ------------------------------------------------------ withRetry actions
\* the rest of the program stands still while one withRetry call is followed
RetryFrame == UNCHANGED <<ingestion, route, documents, response>>

\* withRetry(operation, r, d) is called
InitRetry ==
  /\ agentId = TRUE
  /\ initKB = <<>>
  /\ route = "auth"
  /\ Start
  /\ retryArgs \in [operation : Operations, retries : RetryBudgets, delay : InitialDelays]
  /\ retries = retryArgs.retries
  /\ delay = retryArgs.delay
  /\ retryPc = "call"
  /\ error = NoError
  /\ invocations = 0
  /\ waits = <<>>
  /\ thrown = NoError

\* return await operation(): the operation resolves
OperationResolves ==
  /\ retryPc = "call"
  /\ invocations' = invocations + 1
  /\ retryPc' = "returned"
  /\ UNCHANGED <<retries, delay, error, waits, thrown, retryArgs>>
  /\ RetryFrame

\* the operation rejects with e: catch (error)
OperationRejects(e) ==
  /\ retryPc = "call"
  /\ invocations' = invocations + 1
  /\ error' = e
  /\ retryPc' = "caught"
  /\ UNCHANGED <<retries, delay, waits, thrown, retryArgs>>
  /\ RetryFrame

\* the SDK call inside the operation rejects with e; the operation's own
\* catch rejects with new ElevenLabsError(..., e)
SdkOperationRejects(e) == OperationRejects(ElevenLabsError(e))

\* the catch block up to its throw or its console.warn
Catch ==
  /\ retryPc = "caught"
  /\ IF Exhausted(retries) \/ ~IsRetryable(error)
       THEN /\ thrown' = Rethrow(error)
            /\ retryPc' = "thrown"
       ELSE /\ retryPc' = "waiting"
            /\ UNCHANGED thrown
  /\ UNCHANGED <<retries, delay, error, invocations, waits, retryArgs>>
  /\ RetryFrame

\* await setTimeout(delay); return withRetry(operation, retries - 1, delay * 2)
Backoff ==
  /\ retryPc = "waiting"
  /\ waits' = Append(waits, delay)
  /\ retries' = retries - 1
  /\ delay' = NextDelay(delay)
  /\ error' = NoError
  /\ retryPc' = "call"
  /\ UNCHANGED <<invocations, thrown, retryArgs>>
  /\ RetryFrame

NextRetry ==
  \/ OperationResolves
  \/ /\ retryArgs.operation = "any"
     /\ \E e \in Errors(invocations + 1) : OperationRejects(e)
  \/ /\ retryArgs.operation = "sdk"
     /\ \E e \in Errors(invocations + 1) : SdkOperationRejects(e)
  \/ Catch
  \/ Backoff

SpecRetry == InitRetry /\ [][NextRetry]_vars

\* =================================================================== claims
Front(s) == SubSeq(s, 1, Len(s) - 1)

HasEntryOf(kb, p) == \E i \in 1..Len(kb) : kb[i].name = p

Succeeded(p) == pc[p] = "done" /\ result[p].status = "processing"

\* C1: two ingestions that both fetched the agent config before either PATCHed
\* it (they sent PATCH bodies built on the same fetched list) and both returned
\* success leave a list that is the PATCH body of one of them and therefore
\* holds only one of the two new entries: the later PATCH overwrote the earlier.
C1_LostUpdate ==
  \A p, q \in Ingestions :
    (p # q /\ Succeeded(p) /\ Succeeded(q) /\ Front(sentKB[p]) = Front(sentKB[q]))
      => /\ agentKB \in {sentKB[p], sentKB[q]}
         /\ ~(HasEntryOf(agentKB, p) /\ HasEntryOf(agentKB, q))
         /\ Len(agentKB) = Len(initKB) + 1

\* C1 witness: both succeeded on the same initial config and the first one's
\* entry is gone from the final list
C1_Witness ==
  \E p, q \in Ingestions :
    /\ p # q /\ Succeeded(p) /\ Succeeded(q)
    /\ Front(sentKB[p]) = initKB /\ Front(sentKB[q]) = initKB
    /\ agentKB = sentKB[q]
    /\ ~HasEntryOf(agentKB, p)

\* C2: the list an ingestion sends with PATCH is the list it fetched (which is
\* the agent's list at the time of its GET), entry for entry and in order, with
\* exactly one entry, that of the uploaded document, appended last.
C2_PatchIsFetchedPlusOne ==
  [][\A p \in Ingestions :
       /\ GetAgentOk(p) => existingKnowledgeBase'[p] = agentKB
       /\ (pc[p] = "patch" /\ pc'[p] # "patch") =>
            /\ Len(sentKB'[p]) = Len(existingKnowledgeBase[p]) + 1
            /\ \A i \in 1..Len(existingKnowledgeBase[p]) :
                 sentKB'[p][i] = existingKnowledgeBase[p][i]
            /\ sentKB'[p][Len(sentKB'[p])].id = documentId[p]
            /\ sentKB'[p][Len(sentKB'[p])].name = p
       /\ (pc[p] = "patch" /\ pc'[p] = "patch") =>
            existingKnowledgeBase'[p] = existingKnowledgeBase[p]]_vars

\* C2 witness: a PATCH was sent on top of a fetched list of two entries
C2_Witness ==
  \E p \in Ingestions : calls[p].patch = 1 /\ Len(sentKB[p]) = 3

\* C3 (as claimed): after any sequence of ingestions the agent's list never
\* holds two entries with the same id.
C3_NoDuplicateIds == NoDuplicateIds(agentKB)

\* C4: a PATCH answered non-2xx makes the ingestion fail with the link error;
\* the upload was called exactly once, no delete was issued, the agent config
\* is as before the call, and the document exists remotely without an entry.
C4_LinkFailureLeavesOrphan ==
  [][\A p \in Ingestions :
       PatchNotOk(p) =>
         /\ pc'[p] = "failed"
         /\ err'[p] = [msg |-> ErrLink, at |-> "patch"]
         /\ result'[p] = NoResult
         /\ calls'[p].upload = 1
         /\ calls'[p].del = 0
         /\ agentKB' = agentKB /\ agentRag' = agentRag
         /\ p \in remoteDocs'
         /\ ~HasEntryOf(agentKB', p)]_vars

\* C4 witness: an ingestion failed at the PATCH and its document is uploaded
C4_Witness ==
  \E p \in Ingestions :
    /\ err[p] = [msg |-> ErrLink, at |-> "patch"]
    /\ p \in remoteDocs /\ calls[p].upload = 1 /\ ~HasEntryOf(agentKB, p)

\* C5: on an agent whose list was empty, an ingestion that is alone in writing
\* the config and whose PATCH succeeds returns the document id it got from the
\* upload, and the agent's list is then exactly one entry with that id.
C5_EndToEnd ==
  [][\A p \in Ingestions :
       /\ (PatchOk(p) /\ initKB = <<>> /\ \A q \in Ingestions \ {p} : calls[q].patch = 0)
            => /\ Succeeded(p)'
               /\ result'[p].id = documentId[p]
               /\ Len(agentKB') = 1
               /\ agentKB'[1].id = documentId[p]
               /\ agentKB'[1].name = p
       /\ \A data \in UploadBodies :
            UploadOk(p, data) => documentId'[p] \in {data.id, data.document_id}
       /\ (pc[p] \in {"trigger", "poll", "getAgent"} /\ pc'[p] # "failed")
            => documentId'[p] = documentId[p]]_vars

\* C5 witness: every call succeeded, the list was empty, one entry is linked
C5_Witness ==
  \E p \in Ingestions :
    /\ Succeeded(p) /\ initKB = <<>> /\ indexLog[p] = "succeeded"
    /\ result[p].id \in DocIds
    /\ Len(agentKB) = 1 /\ agentKB[1].id = result[p].id
    /\ \A q \in Ingestions \ {p} : calls[q].patch = 0

\* C6: an upload answered non-2xx fails the ingestion at once with the upload
\* error; it has then made one upload call and no other call, it makes none
\* later, and no remote state was changed.
C6_UploadFailureStops ==
  /\ [][\A p \in Ingestions :
          UploadNotOk(p) =>
            /\ pc'[p] = "failed"
            /\ err'[p] = [msg |-> ErrUpload, at |-> "upload"]
            /\ agentKB' = agentKB /\ agentRag' = agentRag /\ remoteDocs' = remoteDocs]_vars
  /\ [](\A p \in Ingestions :
          err[p].msg = ErrUpload =>
            /\ pc[p] = "failed"
            /\ calls[p] = [NoCalls EXCEPT !.upload = 1]
            /\ attempts[p] = 0 /\ indexLog[p] = "none" /\ sentKB[p] = <<>>
            /\ p \notin remoteDocs)

\* C6 witness: an ingestion failed with the upload error
C6_Witness ==
  \E p \in Ingestions :
    err[p] = [msg |-> ErrUpload, at |-> "upload"] /\ calls[p].upload = 1

\* C7: a failed fetch of the agent config (non-2xx or rejected) fails the
\* ingestion; no PATCH is or will be issued by it, the agent config and the
\* remote documents are untouched, and the uploaded document stays unlinked.
C7_FetchFailureIsFatal ==
  /\ [][\A p \in Ingestions :
          (GetAgentNotOk(p) \/ GetAgentRejected(p)) =>
            /\ pc'[p] = "failed"
            /\ err'[p].msg = (IF GetAgentNotOk(p) THEN ErrGetAgent ELSE ErrRejected)
            /\ agentKB' = agentKB /\ agentRag' = agentRag /\ remoteDocs' = remoteDocs]_vars
  /\ [](\A p \in Ingestions :
          err[p].at = "getAgent" =>
            /\ pc[p] = "failed"
            /\ calls[p].patch = 0 /\ calls[p].del = 0 /\ sentKB[p] = <<>>
            /\ p \in remoteDocs
            /\ ~HasEntryOf(agentKB, p))

\* C7 witness: an ingestion failed at the GET with its document uploaded
C7_Witness ==
  \E p \in Ingestions :
    err[p] = [msg |-> ErrGetAgent, at |-> "getAgent"] /\ p \in remoteDocs

\* C8 (as claimed): an initial trigger call that failed fails the ingestion at
\* the trigger, with no fetch and no PATCH of the agent config.
C8_TriggerFailureIsFatal ==
  \A p \in Ingestions :
    indexLog[p] = "trigger failed" =>
      pc[p] = "failed" /\ err[p].at = "trigger" /\ calls[p].get = 0 /\ calls[p].patch = 0

\* C8 (amended): a trigger call answered non-2xx is logged and swallowed: no
\* status check follows, the ingestion never fails at the trigger because of
\* it, and with an agent id configured its next call is the config fetch.
C8_TriggerFailureIsSwallowed ==
  /\ [][\A p \in Ingestions :
          TriggerNotOk(p) =>
            /\ indexLog'[p] = "trigger failed"
            /\ pc'[p] # "poll" /\ attempts'[p] = 0
            /\ agentId => (pc'[p] = "getAgent" /\ err'[p] = NoErr)
            /\ ~agentId => err'[p] = [msg |-> ErrNoAgent, at |-> "trigger"]]_vars
  /\ [](\A p \in Ingestions :
          indexLog[p] = "trigger failed" =>
            /\ pc[p] \in {"getAgent", "patch", "done", "failed"}
            /\ err[p].msg \in {"none", ErrNoAgent, ErrGetAgent, ErrLink, ErrRejected}
            /\ (err[p].msg = ErrRejected => err[p].at \in {"getAgent", "patch"}))

\* C8 witness: the trigger was rejected and the ingestion still succeeded
C8_Witness ==
  \E p \in Ingestions : indexLog[p] = "trigger failed" /\ Succeeded(p)

\* C9 (as claimed): a status check that fails during polling (non-2xx or a
\* call that throws) never fails the ingestion, so no ingestion ever ends with
\* the error of a status-check call.
C9_PollFailureNeverFatal ==
  \A p \in Ingestions : err[p] # [msg |-> ErrRejected, at |-> "poll"]

\* C10: whatever outcome the indexing block logs (succeeded, failed, still in
\* progress after the budget), the answer that ends polling never raises an
\* error of its own: with an agent id configured the next call is the config
\* fetch, and the only error that can follow directly is the missing agent id.
C10_IndexOutcomeNeverFatal ==
  [][\A p \in Ingestions :
       ((\E s \in RagStatuses : TriggerOk(p, s) \/ PollOk(p, s)) \/ PollNotOk(p)) =>
         /\ err'[p].msg \in {"none", ErrNoAgent}
         /\ (agentId /\ pc'[p] # "poll") =>
              /\ pc'[p] = "getAgent"
              /\ indexLog'[p] \in {"succeeded", "failed", "in progress"}
         /\ agentId => err'[p] = NoErr]_vars

\* C10 witness: one ingestion succeeded after indexing failed, another after
\* the polling budget ran out
C10_Witness ==
  \E p, q \in Ingestions :
    /\ Succeeded(p) /\ indexLog[p] = "failed"
    /\ Succeeded(q) /\ indexLog[q] = "in progress"

\* C11: with the status checks answering pending, pending, succeeded the
\* polling ends at the third status check, not earlier, logged as succeeded;
\* with every status check answering pending it ends at the 20th, not earlier,
\* logged as still in progress (timed out).
C11_PollingTermination ==
  [][\A p \in Ingestions :
       /\ (PollOk(p, "pending") /\ attempts[p] + 1 < 20)
            => (pc'[p] = "poll" /\ attempts'[p] = attempts[p] + 1
                /\ ragStatus'[p] = "pending" /\ indexLog'[p] = "none")
       /\ (PollOk(p, "succeeded") /\ attempts[p] + 1 = 3)
            => (pc'[p] # "poll" /\ indexLog'[p] = "succeeded")
       /\ (PollOk(p, "pending") /\ attempts[p] + 1 = 20)
            => (pc'[p] # "poll" /\ indexLog'[p] = "in progress")]_vars

\* C11 witness: one ingestion timed out, another has seen two pending status
\* checks and is about to make its third
C11_Witness ==
  \E p, q \in Ingestions :
    /\ p # q
    /\ indexLog[p] = "in progress"
    /\ pc[q] = "poll" /\ attempts[q] = 2 /\ ragStatus[q] = "pending"

\* C12: a status check is issued only while the last known status is neither
\* succeeded nor failed and fewer than 20 attempts were made; the attempt count
\* never exceeds 20, polling is never re-entered once left, and polling is
\* logged as still in progress exactly when the 20th check leaves the status
\* non-terminal.
C12_PollingGuard ==
  /\ [](\A p \in Ingestions :
          /\ attempts[p] <= 20
          /\ pc[p] = "poll" =>
               (ragStatus[p] \notin {"succeeded", "failed"} /\ attempts[p] < 20)
          /\ pc[p] # "poll" => (attempts[p] = 0 /\ ragStatus[p] = "none"))
  /\ [][\A p \in Ingestions :
          /\ pc[p] \notin {"trigger", "poll"} => pc'[p] # "poll"
          /\ (pc[p] = "poll" /\ indexLog'[p] = "in progress") => attempts[p] + 1 = 20
          /\ (pc[p] = "poll" /\ pc'[p] = "poll") =>
               attempts'[p] \in {attempts[p], attempts[p] + 1}
          /\ ((PollNotOk(p) \/ PollOk(p, "pending")) /\ attempts[p] + 1 = 20)
               => indexLog'[p] = "in progress"]_vars

\* C12 witness: the budget ran out and the ingestion moved on to the config fetch
C12_Witness ==
  \E p \in Ingestions : indexLog[p] = "in progress" /\ pc[p] = "getAgent"

\* every call kind but the status check has its own counter
CallKind(at) ==
  CASE at = "upload" -> "upload"
    [] at = "trigger" -> "trigger"
    [] at = "getAgent" -> "get"
    [] at = "patch" -> "patch"

C18_SettingsForced ==
  /\ [][\A p \in Ingestions :
          /\ (PatchOk(p) \/ PatchRejected(p, TRUE)) =>
               agentRag' = [enabled |-> TRUE, embedding_model |-> "e5_mistral_7b_instruct",
                            max_documents_length |-> 10000]
          /\ agentRag' # agentRag => \E q \in Ingestions : pc[q] = "patch" /\ pc'[q] # "patch"]_vars
  /\ []((\E p \in Ingestions : Succeeded(p)) =>
          agentRag = [enabled |-> TRUE, embedding_model |-> "e5_mistral_7b_instruct",
                      max_documents_length |-> 10000])

\* C18 witness: an agent that held other settings holds the constants after a
\* successful ingestion
C18_Witness ==
  \E p \in Ingestions :
    Succeeded(p) /\ OtherRag # RagConstants /\ agentRag = RagConstants /\ calls[p].patch = 1

\* what the retry executor is said to retry: rate limiting (429), a 5xx
\* status, a connection reset or a timeout
SignalsTransient(e) ==
  \/ e.statusCode = 429
  \/ e.statusCode \in 500..599
  \/ e.code \in {"ECONNRESET", "ETIMEDOUT"}

\* C13 (as claimed): called with a budget of 3 and an operation that always
\* fails with a retryable error, the executor invokes the operation exactly 3
\* times and raises an error that reports 3 attempts.
C13_ThreeInvocations ==
  (retryPc = "thrown" /\ retryArgs.retries = 3 /\ SignalsTransient(thrown))
    => /\ invocations = 3
       /\ "attempts" \in DOMAIN thrown
       /\ thrown.attempts = 3

\* C13 (amended): called with retries = 3 and an operation that always fails
\* with a retryable error, withRetry invokes the operation exactly 4 times (the
\* first call and 3 retries) and then rethrows the error of the 4th invocation
\* itself, which carries no attempt count. In general a call that ends with a
\* retryable error has invoked the operation retries + 1 times.
C13_RetriesPlusOne ==
  /\ (retryPc = "thrown" /\ retryArgs.retries = 3 /\ SignalsTransient(thrown))
       => /\ invocations = 4
          /\ Len(waits) = 3
          /\ thrown.name = "Error" /\ thrown.raisedBy = 4
          /\ "attempts" \notin DOMAIN thrown
  /\ (retryPc = "thrown" /\ SignalsTransient(thrown))
       => (invocations = retryArgs.retries + 1 /\ retries = 0)

\* C13 witness: the default budget was used up by rate-limit errors
C13_Witness ==
  /\ retryPc = "thrown" /\ retryArgs.retries = 3
  /\ thrown.statusCode = 429 /\ invocations = 4

\* C14: a caught error is retried (budget permitting) exactly when it has
\* status 429, a 5xx status, or code ECONNRESET / ETIMEDOUT; any other error
\* is rethrown at once: no wait, no further invocation, the budget untouched.
C14_RetryableClassification ==
  /\ [][retryPc = "caught" =>
          IF SignalsTransient(error) /\ retries > 0
            THEN retryPc' = "waiting" /\ thrown' = thrown
            ELSE /\ retryPc' = "thrown" /\ thrown' = error
                 /\ waits' = waits /\ invocations' = invocations
                 /\ retries' = retries]_vars
  /\ []((retryPc = "thrown" /\ ~SignalsTransient(thrown)) =>
          /\ invocations = thrown.raisedBy
          /\ Len(waits) = invocations - 1
          /\ retries = retryArgs.retries - Len(waits))
  /\ []((retryPc = "thrown" /\ thrown.raisedBy = 1 /\ ~SignalsTransient(thrown)) =>
          (invocations = 1 /\ waits = <<>> /\ retries = retryArgs.retries))

\* C14 witness: a 400 surfaced after one invocation with the whole budget left
C14_Witness ==
  /\ retryPc = "thrown" /\ thrown.statusCode = 400 /\ thrown.code = "none"
  /\ invocations = 1 /\ waits = <<>> /\ retries = 3

\* C15: the wait before the k-th retry is the initial delay times 2^(k-1): the
\* first wait is the initial delay, each later one double the one before it.
C15_ExponentialBackoff ==
  /\ \A k \in 1..Len(waits) : waits[k] = retryArgs.delay * 2^(k - 1)
  /\ \A k \in 2..Len(waits) : waits[k] = 2 * waits[k - 1]
  /\ Len(waits) > 0 => waits[1] = retryArgs.delay
  /\ retryPc \in {"call", "caught", "waiting"} => delay = retryArgs.delay * 2^Len(waits)

\* C15 witness: three retries from the default delay waited 1000, 2000, 4000 ms
C15_Witness ==
  /\ retryArgs.delay = 1000
  /\ waits = <<1000, 2000, 4000>>

RowsOf(p) == {d \in documents : d.request = p}

\* C19: a local row exists only for a request whose ingestion returned
\* success, and it is created by a step taken after that return; a request
\* whose ingestion failed is answered with an error status and has no row.
C19_RecordOnlyAfterSuccess ==
  /\ [](\A p \in Ingestions :
          /\ RowsOf(p) # {} => (Succeeded(p) /\ response[p] = 201)
          /\ pc[p] = "failed" => (response[p] \in {500, 502} /\ RowsOf(p) = {})
          /\ response[p] = 201 => RowsOf(p) # {})
  /\ [][\A p \in Ingestions :
          RowsOf(p)' # RowsOf(p) => (Succeeded(p) /\ pc'[p] = "done")]_vars

\* C19 witness: one request failed at the PATCH and was answered 502 without
\* a row, the other succeeded and has its row
C19_Witness ==
  \E p, q \in Ingestions :
    /\ pc[p] = "failed" /\ err[p].msg = ErrLink /\ response[p] = 502 /\ RowsOf(p) = {}
    /\ Succeeded(q) /\ RowsOf(q) # {} /\ response[q] = 201

\* C20: when every remote call eventually returns, every ingestion eventually
\* ends, returned or thrown; it has exactly one outcome, which never changes
\* afterwards, and none before it ends.
C20_EveryIngestionEnds ==
  /\ \A p \in Ingestions : <>(pc[p] \in {"done", "failed"})
  /\ [](\A p \in Ingestions :
          /\ pc[p] = "done" => (result[p] # NoResult /\ err[p] = NoErr)
          /\ pc[p] = "failed" => (err[p] # NoErr /\ result[p] = NoResult)
          /\ pc[p] \notin {"done", "failed"} => (result[p] = NoResult /\ err[p] = NoErr))
  /\ [][\A p \in Ingestions :
          pc[p] \in {"done", "failed"} =>
            (pc'[p] = pc[p] /\ result'[p] = result[p] /\ err'[p] = err[p])]_vars

\* C20 witness: an ingestion that used its whole polling budget has returned,
\* another has thrown
C20_Witness ==
  \E p, q \in Ingestions :
    /\ pc[p] = "done" /\ indexLog[p] = "in progress" /\ result[p].status = "processing"
    /\ pc[q] = "failed" /\ err[q] # NoErr

\* position of a stage in the pipeline
StageRank(at) ==
  CASE at = "upload" -> 1
    [] at = "trigger" -> 2
    [] at = "poll" -> 3
    [] at = "getAgent" -> 4
    [] at = "patch" -> 5
    [] at \in {"done", "failed"} -> 6

\* C21: an ingestion moves through upload, trigger, status checks, config
\* fetch, PATCH in this order and never back; a call of a kind is made only in
\* its own stage; the config is fetched only once the indexing block is over,
\* and read as it is at that moment; the PATCH stage is entered only by a
\* successful fetch.
C21_StageOrder ==
  /\ [][\A p \in Ingestions :
          /\ StageRank(pc'[p]) >= StageRank(pc[p])
          /\ calls'[p].upload # calls[p].upload => pc[p] = "upload"
          /\ calls'[p].trigger # calls[p].trigger => pc[p] = "trigger"
          /\ calls'[p].get # calls[p].get =>
               (pc[p] = "getAgent" /\ indexLog[p] # "none" /\ attempts[p] = 0)
          /\ calls'[p].patch # calls[p].patch => pc[p] = "patch"
          /\ (pc[p] # "patch" /\ pc'[p] = "patch") =>
               (pc[p] = "getAgent" /\ existingKnowledgeBase'[p] = agentKB)]_vars
  /\ [](\A p \in Ingestions :
          /\ calls[p].trigger > 0 => calls[p].upload = 1
          /\ pc[p] = "poll" => calls[p].trigger = 1
          /\ calls[p].get > 0 =>
               (calls[p].trigger = 1 /\ pc[p] \notin {"upload", "trigger", "poll"})
          /\ calls[p].patch > 0 => (calls[p].get = 1 /\ pc[p] \in {"done", "failed"}))

\* C21 witness: an ingestion went through all five stages, indexing succeeded
C21_Witness ==
  \E p \in Ingestions :
    /\ pc[p] = "done" /\ indexLog[p] = "succeeded"
    /\ calls[p] = [upload |-> 1, trigger |-> 1, get |-> 1, patch |-> 1, del |-> 0]

\* C22: the id taken from a 2xx upload body is its id field when that is
\* present and its document_id field otherwise; this one id is kept through
\* the pipeline, put into the linked entry and returned.
C22_IdExtraction ==
  [][\A p \in Ingestions :
       /\ \A data \in UploadBodies :
            UploadOk(p, data) =>
              documentId'[p] = IF data.id \in DocIds THEN data.id ELSE data.document_id
       /\ (pc[p] \in {"trigger", "poll", "getAgent"} /\ pc'[p] # "failed")
            => documentId'[p] = documentId[p]
       /\ (pc[p] = "patch" /\ pc'[p] # "patch")
            => sentKB'[p][Len(sentKB'[p])].id = documentId[p]
       /\ PatchOk(p) => result'[p].id = documentId[p]]_vars

\* C22 witness: a returned id that is also the id of the ingestion's entry
C22_Witness ==
  \E p \in Ingestions :
    /\ pc[p] = "done" /\ result[p].id \in DocIds
    /\ \E i \in 1..Len(agentKB) : agentKB[i].name = p /\ agentKB[i].id = result[p].id

\* C25: an ingestion issues at most one upload, one trigger, one config fetch
\* and one PATCH; a status check is issued only in the polling stage with fewer
\* than 20 made so far, each one counted, and the stage is entered once with
\* the count at 0: at most 20 status checks, at most 24 calls in all.
C25_CallBudget ==
  /\ [](\A p \in Ingestions :
          /\ calls[p].upload \in {0, 1} /\ calls[p].trigger \in {0, 1}
          /\ calls[p].get \in {0, 1} /\ calls[p].patch \in {0, 1}
          /\ attempts[p] \in 0..20
          /\ calls[p].upload + calls[p].trigger + attempts[p] + calls[p].get
               + calls[p].patch <= 24
          /\ pc[p] \in {"done", "failed"} =>
               (calls[p].upload = 1 /\ calls[p].patch <= 1))
  /\ [][\A p \in Ingestions :
          /\ pc[p] = "poll" => attempts[p] < 20
          /\ (pc[p] = "poll" /\ pc'[p] = "poll") =>
               attempts'[p] \in {attempts[p], attempts[p] + 1}
          /\ (pc[p] # "poll" /\ pc'[p] = "poll") =>
               (pc[p] = "trigger" /\ attempts'[p] = 0)]_vars

\* C25 witness: an ingestion that made all 24 calls and returned
C25_Witness ==
  \E p \in Ingestions :
    /\ pc[p] = "done" /\ indexLog[p] = "in progress"
    /\ calls[p].upload = 1 /\ calls[p].trigger = 1
    /\ calls[p].get = 1 /\ calls[p].patch = 1

\* C26: every entry of the agent's list has an id; no ingestion triggers
\* indexing for, or links, a document whose upload response carried no id.
C26_NoAbsentId ==
  /\ \A i \in 1..Len(agentKB) : agentKB[i].id # Undefined
  /\ \A p \in Ingestions :
       /\ pc[p] \in {"poll", "getAgent", "patch"} => documentId[p] # Undefined
       /\ \A i \in 1..Len(sentKB[p]) : sentKB[p][i].id # Undefined

\* C30: a non-2xx status check keeps the status as it was and counts as one
\* attempt: below the budget the loop goes on with one attempt more, at the
\* 20th attempt the polling ends as still in progress.
C30_FailedCheckCounts ==
  [][\A p \in Ingestions :
       PollNotOk(p) =>
         IF attempts[p] + 1 < 20
           THEN /\ pc'[p] = "poll"
                /\ ragStatus'[p] = ragStatus[p]
                /\ attempts'[p] = attempts[p] + 1
           ELSE /\ pc'[p] # "poll"
                /\ indexLog'[p] = "in progress"]_vars

\* C30 witness: nineteen status checks were made and the status is still the
\* one the trigger reported
C30_Witness ==
  \E p \in Ingestions :
    pc[p] = "poll" /\ attempts[p] = 19 /\ ragStatus[p] = "pending" /\ calls[p].trigger = 1

\* C24: when no ingestion fetches the config while another is between its
\* fetch and its PATCH, every applied PATCH appends its entry to the list as it
\* stands, so the list is always the initial list followed by one entry per
\* ingestion whose PATCH was applied, in the order of the PATCHes, and every
\* successful ingestion has its entry there.
C24_NoEntryLost ==
  /\ [][\A p \in Ingestions :
          (PatchOk(p) \/ PatchRejected(p, TRUE)) =>
            agentKB' = Append(agentKB, [type |-> "file", name |-> p, id |-> documentId[p],
                                        usage_mode |-> "auto"])]_vars
  /\ [](/\ Len(agentKB) >= Len(initKB)
        /\ SubSeq(agentKB, 1, Len(initKB)) = initKB
        /\ Len(agentKB) = Len(initKB)
                            + Cardinality({p \in Ingestions : HasEntryOf(agentKB, p)})
        /\ \A p \in Ingestions :
             /\ Succeeded(p) => HasEntryOf(agentKB, p)
             /\ HasEntryOf(agentKB, p) =>
                  (Succeeded(p) \/ err[p] = [msg |-> ErrRejected, at |-> "patch"]))

\* C24 witness: two ingestions succeeded one after the other on top of an
\* initial entry, and the list holds all three entries
C24_Witness ==
  /\ \A p \in Ingestions : Succeeded(p)
  /\ Len(initKB) = 1
  /\ Len(agentKB) = 3
  /\ agentKB[1] = initKB[1]

\* C27: with no agent id configured no ingestion fetches or PATCHes a config or
\* returns, every ingestion ends in failure, and the missing-agent-id failure is
\* raised only after the upload succeeded and the indexing block was left, with
\* the document uploaded and not linked. With an agent id it is never raised.
C27_NoAgentIdFailsLate ==
  /\ [](\A p \in Ingestions :
          /\ ~agentId =>
               /\ calls[p].get = 0 /\ calls[p].patch = 0
               /\ pc[p] \notin {"getAgent", "patch", "done"}
               /\ ~HasEntryOf(agentKB, p)
          /\ err[p].msg = ErrNoAgent =>
               /\ ~agentId /\ pc[p] = "failed"
               /\ calls[p].upload = 1 /\ calls[p].trigger = 1
               /\ indexLog[p] # "none"
               /\ p \in remoteDocs
               /\ response[p] # Undefined)
  /\ \A p \in Ingestions : (~agentId) ~> (pc[p] = "failed")

\* C27 witness: the document was uploaded and indexed, then the ingestion
\* failed for the missing agent id
C27_Witness ==
  \E p \in Ingestions :
    /\ ~agentId /\ err[p].msg = ErrNoAgent
    /\ p \in remoteDocs /\ indexLog[p] = "succeeded" /\ agentKB = initKB

\* C23: an SDK-based operation called with the default budget whose SDK call
\* fails with a retryable error (429, 5xx, ECONNRESET, ETIMEDOUT) is invoked
\* again before withRetry gives up.
C23_SdkCallIsRetried ==
  (/\ retryPc = "thrown"
   /\ retryArgs.operation = "sdk"
   /\ retryArgs.retries = DefaultRetries
   /\ SignalsTransient(thrown.originalError))
    => invocations > 1

\* C28: a returned ingestion reports status 'processing' whatever the
\* indexing block logged, never 'indexed' or 'failed'; no stored row has a
\* processed time.
C28_AlwaysProcessing ==
  /\ \A p \in Ingestions :
       /\ result[p].status \in {"none", "processing"}
       /\ pc[p] = "done" =>
            /\ result[p].status = "processing"
            /\ indexLog[p] \in {"succeeded", "failed", "in progress", "trigger failed"}
  /\ \A d \in documents : d.processedAt = FALSE

\* C28 witness: the demo route stored a row without a processed time for an
\* ingestion whose indexing had succeeded
C28_Witness ==
  /\ route = "demo"
  /\ \E p \in Ingestions :
       /\ indexLog[p] = "succeeded" /\ result[p].status = "processing"
       /\ \E d \in RowsOf(p) : d.processedAt = FALSE

\* C29: the remote id stored in a row is the id its ingestion returned.
C29_StoredIdIsReturnedId ==
  \A d \in documents : d.elevenLabsDocId = result[d.request].id

====
